---- MODULE Spec2Model ----
(***************************************************************************)
(* Model of dicom_3d_app.py: a Streamlit script that loads DICOM slices    *)
(* (ZIP upload, single .dcm upload or folder path), stacks them into a     *)
(* NumPy array, shows a 3D render and a slice viewer, and exports NIfTI.   *)
(*                                                                         *)
(* Streamlit reruns the whole script on every interaction, so every action *)
(* of the model is one complete script run (lines 149-188) for the input   *)
(* and widget values the user has set.                                     *)
(*                                                                         *)
(* Strings that the code sorts or tests with endswith() are sequences of   *)
(* character codes; an ndarray is a record [shape, data, dtype] with the   *)
(* data flattened in C order.                                              *)
(***************************************************************************)
EXTENDS Integers, Sequences, FiniteSets, TLC

VARIABLES
    uploaded,      \* st.file_uploader: the uploaded file, if any
    folder_path,   \* st.text_input: the folder to read, if any
    widgets,       \* the sliders and the radio button as the user left them
    ui,            \* the last script run: volume_data and what the page shows
    disk           \* the export directory

vars == <<uploaded, folder_path, widgets, ui, disk>>

(***************************************************************************)
(* Bounds                                                                  *)
(***************************************************************************)
\* largest number of entries in an archive or a directory listing
MaxFiles == 3

(***************************************************************************)
(* Strings                                                                 *)
(***************************************************************************)
Name10dcm == <<49, 48, 46, 100, 99, 109>>      \* "10.dcm"
Name2dcm  == <<50, 46, 100, 99, 109>>          \* "2.dcm"
NameScan  == <<115, 99, 97, 110>>              \* "scan"
NameDir   == <<100, 47>>                       \* "d/"
UpZip     == <<115, 46, 122, 105, 112>>        \* "s.zip"
UpDcm     == <<115, 46, 100, 99, 109>>         \* "s.dcm"
UpUpper   == <<115, 46, 68, 67, 77>>           \* "s.DCM"

ExtDcm == <<46, 100, 99, 109>>                 \* ".dcm"
ExtZip == <<46, 122, 105, 112>>                \* ".zip"
Slash  == <<47>>                               \* "/"

\* the member names an archive or a directory can hold in the model
Names == {Name10dcm, Name2dcm, NameScan, NameDir}

\* str.endswith
EndsWith(s, suf) ==
    /\ Len(s) >= Len(suf)
    /\ SubSeq(s, Len(s) - Len(suf) + 1, Len(s)) = suf

\* Python's str.__lt__: code point order, a proper prefix is smaller
RECURSIVE StrLess(_, _)
StrLess(a, b) ==
    IF b = <<>> THEN FALSE
    ELSE IF a = <<>> THEN TRUE
    ELSE IF Head(a) # Head(b) THEN Head(a) < Head(b)
    ELSE StrLess(Tail(a), Tail(b))

\* insert x into the sorted list s, after the elements equal to it
RECURSIVE Insert(_, _)
Insert(x, s) ==
    IF s = <<>> THEN <<x>>
    ELSE IF StrLess(x, Head(s)) THEN <<x>> \o s
    ELSE <<Head(s)>> \o Insert(x, Tail(s))

\* sorted() left out: the members in the order of the listing
sorted_as_listed(s) == s

\* sorted(list of str)
RECURSIVE sorted(_)
sorted(s) ==
    IF s = <<>> THEN <<>>
    ELSE Insert(s[Len(s)], sorted(SubSeq(s, 1, Len(s) - 1)))

(***************************************************************************)
(* Arrays                                                                  *)
(***************************************************************************)
\* an optional value is a sequence of at most one element
None == <<>>
Some(x) == <<x>>
Get(o) == o[1]

RECURSIVE Prod(_)
Prod(shape) == IF shape = <<>> THEN 1 ELSE Head(shape) * Prod(Tail(shape))

\* ndarray.size and ndarray.ndim
Size(a) == Prod(a.shape)
Ndim(a) == Len(a.shape)

RECURSIVE SeqMin(_)
SeqMin(s) ==
    IF Len(s) = 1 THEN s[1]
    ELSE LET m == SeqMin(Tail(s)) IN IF s[1] < m THEN s[1] ELSE m

RECURSIVE SeqMax(_)
SeqMax(s) ==
    IF Len(s) = 1 THEN s[1]
    ELSE LET m == SeqMax(Tail(s)) IN IF s[1] > m THEN s[1] ELSE m

RECURSIVE Concat(_)
Concat(ss) == IF ss = <<>> THEN <<>> ELSE Head(ss) \o Concat(Tail(ss))

\* the shapes of the pixel arrays a stored image can decode to: two
\* different 2-D grids, a grid without rows, and a colour (3-D) grid
SliceShapes == {<<1, 2>>, <<2, 1>>, <<0, 2>>, <<1, 1, 3>>}

\* what a stored file is: a DICOM image with pixel data, a DICOM document
\* without pixel data, or bytes that cannot be read as DICOM
FileKinds == {"ok", "nopixel", "corrupt"}

\* each file carries pixel values that identify it
Marker(name) ==
    CASE name = Name10dcm -> 1
      [] name = Name2dcm  -> 2
      [] name = NameScan  -> 3
      [] name = UpDcm     -> 1
      [] OTHER            -> 0

\* ds.pixel_array of a file with pixel data (16-bit unsigned samples)
pixel_array(entry) ==
    [shape |-> entry.shape,
     data  |-> [i \in 1..Prod(entry.shape) |->
                   Marker(entry.name) * 20000 + (i - 1) * 7],
     dtype |-> "uint16"]

NoFile == <<>>

\* one st.info / st.warning / st.error / st.success / st.write call, with
\* the file name or the shape that its text interpolates
Msg(level, text, arg) == [level |-> level, text |-> text, arg |-> arg]

RECURSIVE SelectShape(_, _)
SelectShape(slices, shape) ==
    IF slices = <<>> THEN <<>>
    ELSE IF Head(slices).shape = shape
         THEN <<Head(slices)>> \o SelectShape(Tail(slices), shape)
         ELSE SelectShape(Tail(slices), shape)

\* np.array that drops the slices whose shape differs from the first one
np_array_first(slices, ragged) ==
    LET kept == SelectShape(slices, slices[1].shape)
    IN  [raised |-> FALSE,
         value  |-> [shape |-> <<Len(kept)>> \o slices[1].shape,
                     data  |-> Concat([i \in 1..Len(kept) |-> kept[i].data]),
                     dtype |-> "uint16"]]

\* np.array(slices) on a non-empty list of arrays.  Equal shapes stack along
\* a new leading axis.  For unequal shapes NumPy >= 1.24 raises ValueError;
\* older releases raise too unless the leading dimensions differ, where
\* they return a 1-D array of objects (its elements, the slice arrays, are
\* left out: nothing reads them).  The message never names a file.
np_array(slices, ragged) ==
    LET shapes == {slices[i].shape : i \in 1..Len(slices)}
        firsts == {slices[i].shape[1] : i \in 1..Len(slices)}
    IN  IF Cardinality(shapes) = 1
        THEN [raised |-> FALSE,
              value  |-> [shape |-> <<Len(slices)>> \o slices[1].shape,
                          data  |-> Concat([i \in 1..Len(slices) |-> slices[i].data]),
                          dtype |-> "uint16"]]
        ELSE IF ragged = "object" /\ Cardinality(firsts) > 1
        THEN [raised |-> FALSE,
              value  |-> [shape |-> <<Len(slices)>>,
                          data  |-> <<>>,
                          dtype |-> "object"]]
        ELSE [raised |-> TRUE, exc |-> "inhomogeneous shape", file |-> NoFile]

\* np.expand_dims(a, axis=0)
expand_dims(a) == [a EXCEPT !.shape = <<1>> \o a.shape]

(***************************************************************************)
(* Loaders (lines 30-60)                                                   *)
(***************************************************************************)
\* the list comprehension of line 33
RECURSIVE NotDirectories(_)
NotDirectories(entries) ==
    IF entries = <<>> THEN <<>>
    ELSE IF ~EndsWith(Head(entries).name, Slash)
         THEN <<Head(entries).name>> \o NotDirectories(Tail(entries))
         ELSE NotDirectories(Tail(entries))

\* glob with the pattern "*": every name of the folder
glob_any(entries) == [i \in 1..Len(entries) |-> entries[i].name]

\* glob.glob(os.path.join(folder, "*.dcm")): every listed path has the same
\* folder prefix, so paths compare as their file names do
RECURSIVE glob_dcm(_)
glob_dcm(entries) ==
    IF entries = <<>> THEN <<>>
    ELSE IF EndsWith(Head(entries).name, ExtDcm)
         THEN <<Head(entries).name>> \o glob_dcm(Tail(entries))
         ELSE glob_dcm(Tail(entries))

EntryOf(entries, name) ==
    CHOOSE e \in {entries[i] : i \in 1..Len(entries)} : e.name = name

\* the loop over the archive's members with the try around the loop: the
\* first unreadable member ends it
RECURSIVE ZipLoop_abort(_, _, _)
ZipLoop_abort(entries, files, acc) ==
    IF files = <<>> THEN acc
    ELSE LET file == Head(files)
             e    == EntryOf(entries, file)
             read == [acc EXCEPT !.reads = @ \o <<file>>]
         IN  IF e.kind = "corrupt"
             THEN [read EXCEPT !.msgs = @ \o <<Msg("warning", "Skipped", file)>>]
             ELSE IF e.kind = "ok"
             THEN ZipLoop_abort(entries, Tail(files),
                      [read EXCEPT !.slices = @ \o <<pixel_array(e)>>,
                                   !.msgs = @ \o <<Msg("info", "Loaded", file)>>])
             ELSE ZipLoop_abort(entries, Tail(files),
                      [read EXCEPT !.msgs =
                          @ \o <<Msg("warning", "Skipped (no pixel data)", file)>>])

\* lines 34-44: the loop over the archive's members
RECURSIVE ZipLoop(_, _, _)
ZipLoop(entries, files, acc) ==
    IF files = <<>> THEN acc
    ELSE LET file == Head(files)
             e    == EntryOf(entries, file)
             next ==
               IF e.kind = "corrupt"
               THEN [acc EXCEPT !.msgs = @ \o <<Msg("warning", "Skipped", file)>>]
               ELSE IF e.kind = "ok"
               THEN [acc EXCEPT !.slices = @ \o <<pixel_array(e)>>,
                                !.msgs = @ \o <<Msg("info", "Loaded", file)>>]
               ELSE [acc EXCEPT !.msgs =
                         @ \o <<Msg("warning", "Skipped (no pixel data)", file)>>]
         IN  ZipLoop(entries, Tail(files), [next EXCEPT !.reads = @ \o <<file>>])

\* lines 52-57: the loop over the folder's files
RECURSIVE FolderLoop(_, _, _)
FolderLoop(entries, files, acc) ==
    IF files = <<>> THEN acc
    ELSE LET f    == Head(files)
             e    == EntryOf(entries, f)
             next ==
               IF e.kind = "ok"
               THEN [acc EXCEPT !.slices = @ \o <<pixel_array(e)>>]
               ELSE [acc EXCEPT !.msgs = @ \o <<Msg("warning", "Skipping file", f)>>]
         IN  FolderLoop(entries, Tail(files), [next EXCEPT !.reads = @ \o <<f>>])

EmptyAcc == [slices |-> <<>>, msgs |-> <<>>, reads |-> <<>>]

\* a loader that falls back to the first slice when the slices do not stack
Finish_first(acc, ragged) ==
    IF Len(acc.slices) = 0
    THEN [raised |-> TRUE, exc |-> "No valid DICOM slices", file |-> NoFile,
          msgs |-> acc.msgs, reads |-> acc.reads]
    ELSE LET r == np_array(acc.slices, ragged)
         IN  [raised |-> FALSE,
              value |-> IF r.raised \/ r.value.dtype = "object"
                        THEN expand_dims(acc.slices[1]) ELSE r.value,
              msgs |-> acc.msgs, reads |-> acc.reads]

\* lines 45-47 and 58-60: the result of a loader, given what its loop
\* collected
Finish(acc, ragged) ==
    IF Len(acc.slices) = 0
    THEN [raised |-> TRUE, exc |-> "No valid DICOM slices", file |-> NoFile,
          msgs |-> acc.msgs, reads |-> acc.reads]
    ELSE LET r == np_array(acc.slices, ragged)
         IN  IF r.raised
             THEN [raised |-> TRUE, exc |-> r.exc, file |-> r.file,
                   msgs |-> acc.msgs, reads |-> acc.reads]
             ELSE [raised |-> FALSE, value |-> r.value,
                   msgs |-> acc.msgs, reads |-> acc.reads]

load_dicom_slices_from_zip(entries, ragged) ==
    LET dicom_files == sorted(NotDirectories(entries))
    IN  Finish(ZipLoop(entries, dicom_files, EmptyAcc), ragged)

load_dicom_slices_from_folder(entries, ragged) ==
    LET files == sorted(glob_dcm(entries))
    IN  Finish(FolderLoop(entries, files, EmptyAcc), ragged)

(***************************************************************************)
(* 3D view (lines 63-97)                                                   *)
(***************************************************************************)
Max2(a, b) == IF a > b THEN a ELSE b
Min2(a, b) == IF a < b THEN a ELSE b

\* st.slider(label, lo, hi, value): the value the user left the slider at,
\* or its default while the user has not moved it.  The slider is taken by
\* its documented contract, a value in lo..hi, also when lo = hi.
st_slider(lo, hi, value, state) == IF state = None THEN value ELSE Get(state)

\* np.clip(a, a_min, a_max) = minimum(maximum(a, a_min), a_max), a new array
np_clip(a, a_min, a_max) ==
    [a EXCEPT !.data = [i \in 1..Len(a.data) |-> Min2(Max2(a.data[i], a_min), a_max)]]

\* np.linspace(0, 1, n) as fractions <<numerator, denominator>>
linspace(n) == [k \in 1..n |-> IF n = 1 THEN <<0, 1>> ELSE <<k - 1, n - 1>>]

\* ndarray.repeat(r): every element r times in a row
np_repeat(s, r) == [i \in 1..(Len(s) * r) |-> s[((i - 1) \div r) + 1]]

\* np.tile(s, r): the whole sequence r times
np_tile(s, r) == [i \in 1..(Len(s) * r) |-> s[((i - 1) % Len(s)) + 1]]

\* a 3D view that clips the array it is given in place (np.clip with out=)
show_3d_volume_in_place(volume_np, w) ==
    LET vmin == SeqMin(volume_np.data)
        vmax == SeqMax(volume_np.data)
        threshold_min == st_slider(vmin, vmax, vmin, w.tmin)
        threshold_max == st_slider(vmin, vmax, vmax, w.tmax)
        volume_thresh == np_clip(volume_np, threshold_min, threshold_max)
        lo == SeqMin(volume_thresh.data)
        hi == SeqMax(volume_thresh.data)
    IN  [vol |-> volume_thresh,
         fig |-> Some([x |-> <<>>, y |-> <<>>, z |-> <<>>,
                       value |-> [i \in 1..Len(volume_thresh.data) |->
                                     <<volume_thresh.data[i] - lo, hi - lo>>],
                       threshold_min |-> threshold_min,
                       threshold_max |-> threshold_max]),
         msgs |-> <<>>]

\* show_3d_volume(volume_np).  Python passes the array by reference, so the
\* result carries the array as the call leaves it (vol) besides what the
\* call draws.  value[i] = <<n, d>> stands for the float n / (d + 1e-5)
\* of line 76.
show_3d_volume(volume_np, w) ==
    IF Ndim(volume_np) # 3 \/ Size(volume_np) = 0
    THEN [vol |-> volume_np, fig |-> None,
          msgs |-> <<Msg("warning", "Expected a 3D volume", volume_np.shape)>>]
    ELSE LET vmin == SeqMin(volume_np.data)
             vmax == SeqMax(volume_np.data)
             threshold_min == st_slider(vmin, vmax, vmin, w.tmin)
             threshold_max == st_slider(vmin, vmax, vmax, w.tmax)
             volume_thresh == np_clip(volume_np, threshold_min, threshold_max)
             flat == volume_thresh.data
             lo == SeqMin(flat)
             hi == SeqMax(flat)
             values == [i \in 1..Len(flat) |->
                           <<flat[i] - lo, hi - lo>>]
             D == volume_np.shape[1]
             H == volume_np.shape[2]
             W == volume_np.shape[3]
         IN  [vol |-> volume_np,
              fig |-> Some([x |-> np_repeat(linspace(W), H * D),
                       y |-> np_tile(linspace(H), W * D),
                       z |-> np_repeat(linspace(D), H * W),
                       value |-> values,
                       threshold_min |-> threshold_min,
                       threshold_max |-> threshold_max]),
              msgs |-> <<>>]

(***************************************************************************)
(* Slice viewer (lines 100-139)                                            *)
(***************************************************************************)
\* normalize_slice(slice_2d): a new uint8 array
normalize_slice(slice_2d) ==
    LET lo == SeqMin(slice_2d.data)
        hi == SeqMax(slice_2d.data)
    IN  IF hi = lo
        THEN [shape |-> slice_2d.shape,
              data  |-> [i \in 1..Len(slice_2d.data) |-> 0],
              dtype |-> "uint8"]
        ELSE [shape |-> slice_2d.shape,
              data  |-> [i \in 1..Len(slice_2d.data) |->
                            ((slice_2d.data[i] - lo) * 255) \div (hi - lo)],
              dtype |-> "uint8"]

\* volume_np[index, :, :]
TakeAxial(v, index) ==
    LET H == v.shape[2]
        W == v.shape[3]
    IN  [shape |-> <<H, W>>,
         data  |-> [k \in 1..(H * W) |-> v.data[index * H * W + k]],
         dtype |-> v.dtype]

\* the coronal plane, transposed
TakeCoronal_T(v, index) ==
    LET D == v.shape[1]
        H == v.shape[2]
        W == v.shape[3]
    IN  [shape |-> <<W, D>>,
         data  |-> [k \in 1..(W * D) |->
                       v.data[(((k - 1) % D) * H + index) * W + ((k - 1) \div D) + 1]],
         dtype |-> v.dtype]

\* volume_np[:, index, :]
TakeCoronal(v, index) ==
    LET D == v.shape[1]
        H == v.shape[2]
        W == v.shape[3]
    IN  [shape |-> <<D, W>>,
         data  |-> [k \in 1..(D * W) |->
                       v.data[(((k - 1) \div W) * H + index) * W + ((k - 1) % W) + 1]],
         dtype |-> v.dtype]

\* volume_np[:, :, index]
TakeSagittal(v, index) ==
    LET D == v.shape[1]
        H == v.shape[2]
        W == v.shape[3]
    IN  [shape |-> <<D, H>>,
         data  |-> [k \in 1..(D * H) |->
                       v.data[(((k - 1) \div H) * H + ((k - 1) % H)) * W + index + 1]],
         dtype |-> v.dtype]

Axes == {"Axial", "Coronal", "Sagittal"}

AxisNo(axis) == CASE axis = "Axial" -> 1 [] axis = "Coronal" -> 2 [] OTHER -> 3

Take(v, axis, index) ==
    CASE axis = "Axial"   -> TakeAxial(v, index)
      [] axis = "Coronal" -> TakeCoronal(v, index)
      [] OTHER            -> TakeSagittal(v, index)

\* show_slice_views(volume_np): the three branches differ only in the axis.
\* max() of an empty plane raises inside normalize_slice, which the
\* try/except of lines 110 and 138 reports.
show_slice_views(volume_np, w) ==
    LET axis == IF w.axis = None THEN "Axial" ELSE Get(w.axis)
        extent == volume_np.shape[AxisNo(axis)]
    IN  IF extent < 1
        THEN [vol |-> volume_np, view |-> None,
              msgs |-> <<Msg("warning", "No slices found", NoFile)>>]
        ELSE LET max_index == extent - 1
                 index == st_slider(0, max_index, max_index \div 2, w.index)
                 plane == Take(volume_np, axis, index)
             IN  IF Size(plane) = 0
                 THEN [vol |-> volume_np, view |-> None,
                       msgs |-> <<Msg("error", "Error showing slice", NoFile)>>]
                 ELSE [vol |-> volume_np,
                       view |-> Some([axis |-> axis, max_index |-> max_index,
                                      index |-> index, plane |-> plane,
                                      img |-> normalize_slice(plane)]),
                       msgs |-> <<>>]

(***************************************************************************)
(* Export (lines 142-146)                                                  *)
(***************************************************************************)
\* a cast that saturates at the ends of the int16 range
astype_int16_saturate(a) ==
    [shape |-> a.shape,
     data  |-> [i \in 1..Len(a.data) |-> Min2(Max2(a.data[i], -32768), 32767)],
     dtype |-> "int16"]

\* ndarray.astype(np.int16): a new array, values wrap modulo 2^16
astype_int16(a) ==
    [shape |-> a.shape,
     data  |-> [i \in 1..Len(a.data) |-> ((a.data[i] + 32768) % 65536) - 32768],
     dtype |-> "int16"]

\* np.eye(4)
eye4 == [i \in 1..4 |-> [j \in 1..4 |-> IF i = j THEN 1 ELSE 0]]

\* os.path.join(EXPORT_DIR, "volume.nii.gz")
nifti_path == "exports/volume.nii.gz"

\* export_nifti(volume_np): the path it returns and the file system after
\* nib.save
export_nifti(volume_np, dsk) ==
    LET nifti_img == [dataobj |-> astype_int16(volume_np), affine |-> eye4]
    IN  [path |-> nifti_path,
         disk |-> [dsk EXCEPT ![nifti_path] = Some(nifti_img)]]

(***************************************************************************)
(* Main flow (lines 149-188): one run of the script                        *)
(***************************************************************************)
\* lines 163-164: the single-file branch, pydicom.dcmread(uploaded) and
\* ds.pixel_array raise for an unreadable file and for one without pixels.
\* Every run reads the upload from its first byte.
LoadSingle(e) ==
    IF e.kind = "ok"
    THEN [raised |-> FALSE, value |-> expand_dims(pixel_array(e)),
          msgs |-> <<>>, reads |-> <<e.name>>]
    ELSE [raised |-> TRUE, exc |-> "cannot read pixel data", file |-> NoFile,
          msgs |-> <<>>, reads |-> <<e.name>>]

NoLoad == [volume_data |-> None, msgs |-> <<>>, reads |-> <<>>, raised |-> FALSE]

\* the try/except around a loader call: lines 154-158, 162-167, 171-175
Guarded(r) ==
    IF r.raised
    THEN [volume_data |-> None,
          msgs |-> r.msgs \o <<Msg("error", "Error loading DICOM: " \o r.exc, r.file)>>,
          reads |-> r.reads, raised |-> TRUE]
    ELSE [volume_data |-> Some(r.value),
          msgs |-> r.msgs \o <<Msg("success", "Loaded slices", r.value.shape)>>,
          reads |-> r.reads, raised |-> FALSE]

\* lines 149-175
LoadStage(up, fp, ragged) ==
    IF up # None
    THEN IF EndsWith(Get(up).name, ExtZip)
         THEN Guarded(load_dicom_slices_from_zip(Get(up).members, ragged))
         ELSE IF EndsWith(Get(up).name, ExtDcm)
         THEN Guarded(LoadSingle(Get(up).members[1]))
         ELSE NoLoad
    ELSE IF fp # None
    THEN Guarded(load_dicom_slices_from_folder(Get(fp).listing, ragged))
    ELSE NoLoad

\* the page with a gate that does not look at the size of the array
ShowStage_any_size(l, w, clicked, dsk) ==
    LET volume_data == l.volume_data
        blank == [volume_data |-> volume_data, msgs |-> l.msgs, reads |-> l.reads,
                  load_raised |-> l.raised,
                  calls |-> <<>>, fig |-> None, view |-> None,
                  button |-> FALSE, download |-> None, disk |-> dsk]
    IN  IF volume_data = None THEN blank
        ELSE LET shown == Msg("write", "Volume shape", Get(volume_data).shape)
             IN  IF Ndim(Get(volume_data)) = 3
                 THEN LET r3 == show_3d_volume(Get(volume_data), w)
                          rs == show_slice_views(r3.vol, w)
                          ex == export_nifti(rs.vol, dsk)
                      IN  [blank EXCEPT
                             !.volume_data = Some(rs.vol),
                             !.msgs = @ \o <<shown>> \o r3.msgs \o rs.msgs,
                             !.calls = <<"show_3d_volume", "show_slice_views">>
                                       \o (IF clicked THEN <<"export_nifti">> ELSE <<>>),
                             !.fig = r3.fig,
                             !.view = rs.view,
                             !.button = TRUE,
                             !.download = IF clicked
                                          THEN Some([file_name |-> "volume.nii.gz",
                                                     data |-> ex.disk[ex.path]])
                                          ELSE None,
                             !.disk = IF clicked THEN ex.disk ELSE dsk]
                 ELSE [blank EXCEPT
                         !.msgs = @ \o <<shown,
                                         Msg("error", "DICOM volume is not valid or empty",
                                             NoFile)>>]

\* the page with a gate that lets arrays of more than three axes through
ShowStage_any_ndim(l, w, clicked, dsk) ==
    LET volume_data == l.volume_data
        blank == [volume_data |-> volume_data, msgs |-> l.msgs, reads |-> l.reads,
                  load_raised |-> l.raised,
                  calls |-> <<>>, fig |-> None, view |-> None,
                  button |-> FALSE, download |-> None, disk |-> dsk]
    IN  IF volume_data = None THEN blank
        ELSE LET shown == Msg("write", "Volume shape", Get(volume_data).shape)
             IN  IF Ndim(Get(volume_data)) >= 3 /\ Size(Get(volume_data)) > 0
                 THEN LET r3 == show_3d_volume(Get(volume_data), w)
                          rs == show_slice_views(r3.vol, w)
                          ex == export_nifti(rs.vol, dsk)
                      IN  [blank EXCEPT
                             !.volume_data = Some(rs.vol),
                             !.msgs = @ \o <<shown>> \o r3.msgs \o rs.msgs,
                             !.calls = <<"show_3d_volume", "show_slice_views">>
                                       \o (IF clicked THEN <<"export_nifti">> ELSE <<>>),
                             !.fig = r3.fig,
                             !.view = rs.view,
                             !.button = TRUE,
                             !.download = IF clicked
                                          THEN Some([file_name |-> "volume.nii.gz",
                                                     data |-> ex.disk[ex.path]])
                                          ELSE None,
                             !.disk = IF clicked THEN ex.disk ELSE dsk]
                 ELSE [blank EXCEPT
                         !.msgs = @ \o <<shown,
                                         Msg("error", "DICOM volume is not valid or empty",
                                             NoFile)>>]

\* lines 177-188, after the load stage l; clicked is what st.button returns
ShowStage(l, w, clicked, dsk) ==
    LET volume_data == l.volume_data
        blank == [volume_data |-> volume_data, msgs |-> l.msgs, reads |-> l.reads,
                  load_raised |-> l.raised,
                  calls |-> <<>>, fig |-> None, view |-> None,
                  button |-> FALSE, download |-> None, disk |-> dsk]
    IN  IF volume_data = None THEN blank
        ELSE LET shown == Msg("write", "Volume shape", Get(volume_data).shape)
             IN  IF Ndim(Get(volume_data)) = 3 /\ Size(Get(volume_data)) > 0
                 THEN LET r3 == show_3d_volume(Get(volume_data), w)
                          rs == show_slice_views(r3.vol, w)
                          ex == export_nifti(rs.vol, dsk)
                      IN  [blank EXCEPT
                             !.volume_data = Some(rs.vol),
                             !.msgs = @ \o <<shown>> \o r3.msgs \o rs.msgs,
                             !.calls = <<"show_3d_volume", "show_slice_views">>
                                       \o (IF clicked THEN <<"export_nifti">> ELSE <<>>),
                             !.fig = r3.fig,
                             !.view = rs.view,
                             !.button = TRUE,
                             !.download = IF clicked
                                          THEN Some([file_name |-> "volume.nii.gz",
                                                     data |-> ex.disk[ex.path]])
                                          ELSE None,
                             !.disk = IF clicked THEN ex.disk ELSE dsk]
                 ELSE [blank EXCEPT
                         !.msgs = @ \o <<shown,
                                         Msg("error", "DICOM volume is not valid or empty",
                                             NoFile)>>]

Main(up, fp, w, clicked, dsk, ragged) ==
    ShowStage(LoadStage(up, fp, ragged), w, clicked, dsk)

(***************************************************************************)
(* State                                                                   *)
(***************************************************************************)
NoWidgets == [tmin |-> None, tmax |-> None, axis |-> None, index |-> None]

\* the page and the array of the last run; the export file is in disk
Page(r) == [volume_data |-> r.volume_data, msgs |-> r.msgs, reads |-> r.reads,
            load_raised |-> r.load_raised, calls |-> r.calls, fig |-> r.fig,
            view |-> r.view, button |-> r.button, download |-> r.download]

\* what np.array does with slices of unequal shapes depends on the NumPy
\* release the application runs on
NumpyBuilds == {"raise", "object"}

\* the values the widgets hold after a run: a widget that the run did not
\* create holds nothing
WidgetsOf(r) ==
    [tmin  |-> IF r.fig = None THEN None ELSE Some(Get(r.fig).threshold_min),
     tmax  |-> IF r.fig = None THEN None ELSE Some(Get(r.fig).threshold_max),
     axis  |-> IF r.view = None THEN None ELSE Some(Get(r.view).axis),
     index |-> IF r.view = None THEN None ELSE Some(Get(r.view).index)]

\* one rerun of the script for the given input and widget values
Rerun(up, fp, w, clicked) ==
    \E ragged \in NumpyBuilds :
       LET r == Main(up, fp, w, clicked, disk, ragged)
       IN  /\ uploaded' = up
           /\ folder_path' = fp
           /\ widgets' = WidgetsOf(r)
           /\ ui' = Page(r)
           /\ disk' = r.disk

\* the entries of an archive or a directory: distinct names, any order
Entry(name) ==
    IF EndsWith(name, Slash)
    THEN {[name |-> name, kind |-> "corrupt", shape |-> <<0, 0>>]}
    ELSE {[name |-> name, kind |-> "ok", shape |-> sh] : sh \in SliceShapes}
         \cup {[name |-> name, kind |-> k, shape |-> <<0, 0>>] :
                  k \in FileKinds \ {"ok"}}

RECURSIVE Listings(_, _)
Listings(n, names) ==
    IF n = 0 THEN {<<>>}
    ELSE {<<>>} \cup
         UNION {UNION {{<<e>> \o rest : rest \in Listings(n - 1, names \ {nm})} :
                          e \in Entry(nm)} : nm \in names}

\* every archive or directory of at most MaxFiles entries
AllListings == Listings(MaxFiles, Names)

\* the archives and directories of the interactive sessions: the two image
\* files, in any order, each in any condition
SessionNames == {Name10dcm, Name2dcm}
SessionListings == Listings(Cardinality(SessionNames), SessionNames)

NoDisk == [p \in {nifti_path} |-> None]

Init ==
    /\ uploaded = None
    /\ folder_path = None
    /\ widgets = NoWidgets
    /\ ui = Page(Main(None, None, NoWidgets, FALSE, NoDisk, "raise"))
    /\ disk = NoDisk

Idle == uploaded = None /\ folder_path = None

(***************************************************************************)
(* Actions: the user does something and Streamlit reruns the script        *)
(***************************************************************************)
UploadZip ==
    /\ Idle
    /\ \E members \in SessionListings :
          Rerun(Some([name |-> UpZip, members |-> members]), None, NoWidgets, FALSE)

UploadDcm ==
    /\ Idle
    /\ \E nm \in {UpDcm, UpUpper} : \E k \in FileKinds : \E sh \in SliceShapes :
          /\ k # "ok" => sh = <<1, 2>>
          /\ Rerun(Some([name |-> nm,
                         members |-> <<[name |-> UpDcm, kind |-> k,
                                        shape |-> IF k = "ok" THEN sh ELSE <<0, 0>>]>>]),
                   None, NoWidgets, FALSE)

EnterFolder ==
    /\ Idle
    /\ \E listing \in SessionListings :
          Rerun(None, Some([listing |-> listing]), NoWidgets, FALSE)

ClearInput ==
    /\ ~Idle
    /\ Rerun(None, None, NoWidgets, FALSE)

ThresholdChoices(v) ==
    LET lo == SeqMin(v.data)
        hi == SeqMax(v.data)
    IN  {lo, hi}

SetThresholdMin ==
    /\ ui.fig # None
    /\ \E t \in ThresholdChoices(Get(ui.volume_data)) :
          Rerun(uploaded, folder_path, [widgets EXCEPT !.tmin = Some(t)], FALSE)

SetThresholdMax ==
    /\ ui.fig # None
    /\ \E t \in ThresholdChoices(Get(ui.volume_data)) :
          Rerun(uploaded, folder_path, [widgets EXCEPT !.tmax = Some(t)], FALSE)

\* the index slider is a new widget, at its default, when its range changes
SelectAxis ==
    /\ ui.button
    /\ \E a \in Axes :
          LET extent == Get(ui.volume_data).shape[AxisNo(a)]
              keep == ui.view # None /\ Get(ui.view).max_index = extent - 1
          IN  Rerun(uploaded, folder_path,
                    [widgets EXCEPT !.axis = Some(a),
                                    !.index = IF keep THEN @ ELSE None],
                    FALSE)

SelectIndex ==
    /\ ui.view # None
    /\ \E i \in 0..Get(ui.view).max_index :
          Rerun(uploaded, folder_path, [widgets EXCEPT !.index = Some(i)], FALSE)

ClickExport ==
    /\ ui.button
    /\ Rerun(uploaded, folder_path, widgets, TRUE)

ClickDownload ==
    /\ ui.download # None
    /\ Rerun(uploaded, folder_path, widgets, FALSE)

\* the user reruns the script from the menu
RerunScript ==
    /\ ~Idle
    /\ Rerun(uploaded, folder_path, widgets, FALSE)

Next ==
    \/ UploadZip
    \/ UploadDcm
    \/ EnterFolder
    \/ ClearInput
    \/ SetThresholdMin
    \/ SetThresholdMax
    \/ SelectAxis
    \/ SelectIndex
    \/ ClickExport
    \/ ClickDownload
    \/ RerunScript

Spec == Init /\ [][Next]_vars

\* loading only, over every archive and directory of at most MaxFiles
\* entries
LoadAnyZip ==
    /\ Idle
    /\ \E members \in AllListings :
          Rerun(Some([name |-> UpZip, members |-> members]), None, NoWidgets, FALSE)

LoadAnyFolder ==
    /\ Idle
    /\ \E listing \in AllListings :
          Rerun(None, Some([listing |-> listing]), NoWidgets, FALSE)

NextLoad ==
    \/ LoadAnyZip
    \/ LoadAnyFolder
    \/ UploadDcm
    \/ ClearInput

SpecLoad == Init /\ [][NextLoad]_vars

(***************************************************************************)
(* Vocabulary of the properties                                            *)
(***************************************************************************)
IsZip == uploaded # None /\ EndsWith(Get(uploaded).name, ExtZip)
IsSingle == uploaded # None /\ EndsWith(Get(uploaded).name, ExtDcm)
IsFolder == uploaded = None /\ folder_path # None

\* the entries of the archive or of the directory
InputEntries ==
    IF IsZip THEN {Get(uploaded).members[i] : i \in 1..Len(Get(uploaded).members)}
    ELSE IF IsFolder
    THEN {Get(folder_path).listing[i] : i \in 1..Len(Get(folder_path).listing)}
    ELSE {}

\* the files among them: every member of an archive that is not a
\* directory, the *.dcm files of a folder
ArchiveFiles == {e \in InputEntries : e.name[Len(e.name)] # 47}
DcmFiles == {e \in InputEntries : EndsWith(e.name, ExtDcm)}
Candidates == IF IsZip THEN ArchiveFiles ELSE IF IsFolder THEN DcmFiles ELSE {}

\* the candidates that decode to a pixel array
Decoded == {e \in Candidates : e.kind = "ok"}

SameShape(S) == \A a, b \in S : a.shape = b.shape

\* how many files of S come before e by name
Rank(e, S) == Cardinality({f \in S : StrLess(f.name, e.name)})

\* the k-th (from 0) sub-array of v along its first axis
Block(v, k) ==
    LET sz == Prod(Tail(v.shape))
    IN  SubSeq(v.data, k * sz + 1, (k + 1) * sz)

SeqToSet(q) == {q[i] : i \in 1..Len(q)}

HasMsg(level) == \E i \in 1..Len(ui.msgs) : ui.msgs[i].level = level

Returned == ui.volume_data # None
Volume == Get(ui.volume_data)

\* the returned array is made of exactly the slices of S, ordered by name
StackOf(S) ==
    /\ Returned
    /\ Volume.shape[1] = Cardinality(S)
    /\ \A e \in S :
          /\ Tail(Volume.shape) = e.shape
          /\ Block(Volume, Rank(e, S)) = pixel_array(e).data

\* C2: N >= 1 valid slices of one shape give a Volume of depth N whose
\* k-th slice is the file that is k-th by name, whatever the order in which
\* the archive or the directory lists them.
C2_DepthAndOrder ==
    (Candidates # {} /\ Decoded = Candidates /\ SameShape(Candidates))
        => StackOf(Candidates)

\* three valid slices of one shape in an archive that lists the last name
\* first
C2_Witness ==
    /\ IsZip
    /\ Cardinality(Candidates) = 3
    /\ Decoded = Candidates
    /\ \A e \in Candidates : e.shape = <<1, 2>>
    /\ Get(uploaded).members[1].name = NameScan
    /\ Get(uploaded).members[3].name = Name10dcm
    /\ Returned
    /\ Volume.shape = <<3, 1, 2>>

\* C4: a file that cannot be decoded or has no pixel data is skipped with a
\* message and the batch goes on: every candidate is read, in name order,
\* and the array that the loader returns has one slice per decoded file, the
\* decoded files in name order.
C4_SkipContinues ==
    (IsZip \/ IsFolder) =>
       /\ Len(ui.reads) = Cardinality(Candidates)
       /\ \A e \in Candidates : ui.reads[Rank(e, Candidates) + 1] = e.name
       /\ \A e \in Candidates \ Decoded :
             \E i \in 1..Len(ui.msgs) :
                ui.msgs[i].level = "warning" /\ ui.msgs[i].arg = e.name
       /\ Returned => Volume.shape[1] = Cardinality(Decoded)
       /\ (Decoded # {} /\ SameShape(Decoded)) => StackOf(Decoded)

\* a folder whose first file is unreadable and whose second file decodes
C4_Witness ==
    /\ IsFolder
    /\ \E a, b \in Candidates :
          /\ StrLess(a.name, b.name)
          /\ a.kind = "corrupt"
          /\ b.kind = "ok" /\ b.shape = <<2, 1>>
    /\ Cardinality(Decoded) = 1
    /\ Returned
    /\ Volume.shape = <<1, 2, 1>>
    /\ HasMsg("warning")

\* C5 as stated: an archive without any *.dcm member hands nothing to the
\* decoder and fails as empty.
C5_Original ==
    (IsZip /\ DcmFiles = {}) =>
       /\ ui.reads = <<>>
       /\ ui.load_raised
       /\ ~Returned

\* C5, amended: the folder loader reads exactly the *.dcm files and the
\* archive loader reads every member that is not a directory, whatever its
\* extension; when that leaves nothing, no file is read, the loader raises
\* and an error is shown.
C5_Enumerated ==
    /\ IsFolder => SeqToSet(ui.reads) = {e.name : e \in DcmFiles}
    /\ IsZip => SeqToSet(ui.reads) = {e.name : e \in ArchiveFiles}
    /\ ((IsZip \/ IsFolder) /\ Candidates = {}) =>
          /\ ui.reads = <<>>
          /\ ui.load_raised
          /\ ~Returned
          /\ HasMsg("error")

\* a folder that holds a valid image under a name without the extension,
\* and nothing else
C5_Witness ==
    /\ IsFolder
    /\ \E e \in InputEntries : e.name = NameScan /\ e.kind = "ok"
    /\ DcmFiles = {}
    /\ ui.reads = <<>>
    /\ ui.load_raised

\* C3 as stated: slices of unequal shapes make the loader fail with an error
\* that names the offending file, and no array is returned.
C3_Original ==
    ((IsZip \/ IsFolder) /\ ~SameShape(Decoded)) =>
       /\ ui.load_raised
       /\ ~Returned
       /\ \E i \in 1..Len(ui.msgs) :
             /\ ui.msgs[i].level = "error"
             /\ ui.msgs[i].arg \in {e.name : e \in Decoded}

\* C3, amended: slices of unequal shapes never give a 3-D Volume.  Either
\* np.array raises, and the load error that is shown names no file, or it
\* returns a 1-D array of objects, which the page reports as not valid.
\* Nothing is rendered or exported.
C3_NoVolume ==
    ((IsZip \/ IsFolder) /\ ~SameShape(Decoded)) =>
       /\ \/ /\ ui.load_raised
             /\ ~Returned
             /\ ui.msgs[Len(ui.msgs)].level = "error"
             /\ ui.msgs[Len(ui.msgs)].arg = NoFile
          \/ /\ ~ui.load_raised
             /\ Returned
             /\ Ndim(Volume) = 1
             /\ ui.msgs[Len(ui.msgs)].level = "error"
       /\ ui.calls = <<>>

\* two decoded slices of shapes (1,2) and (2,1), and the loader raised
C3_Witness ==
    /\ IsZip
    /\ \E a, b \in Decoded : a.shape = <<1, 2>> /\ b.shape = <<2, 1>>
    /\ ui.load_raised
    /\ ~Returned

(***************************************************************************)
(* Properties of the sessions                                              *)
(***************************************************************************)
\* the array of the last run is a Volume: three axes and not empty
ValidVolume == Returned /\ Ndim(Volume) = 3 /\ Size(Volume) > 0

\* nothing of the last run came from the renderer, the slice viewer or the
\* exporter
NothingShown ==
    /\ ui.calls = <<>>
    /\ ui.fig = None
    /\ ui.view = None
    /\ ~ui.button
    /\ ui.download = None

\* the input has no file to decode, none that decodes, or slices of
\* unequal shapes
StructuralFailure ==
    \/ (IsZip \/ IsFolder) /\ (Decoded = {} \/ ~SameShape(Decoded))
    \/ IsSingle /\ Get(uploaded).members[1].kind # "ok"

C6_ValidityGate ==
    /\ ~NothingShown => ValidVolume
    /\ (Returned /\ ~ValidVolume) =>
          /\ NothingShown
          /\ HasMsg("error")
          /\ \E i \in 1..Len(ui.msgs) :
                ui.msgs[i].level = "write" /\ ui.msgs[i].arg = Volume.shape

\* an array with three axes and no element
C6_Witness ==
    /\ Returned
    /\ Ndim(Volume) = 3
    /\ Size(Volume) = 0
    /\ NothingShown
    /\ HasMsg("error")

Loaded == ValidVolume /\ ~ui.load_raised
LoadFailed == ~Idle /\ ~ValidVolume
Exploring == ui.fig # None \/ ui.view # None
Exporting == ui.download # None
SameInput == uploaded' = uploaded /\ folder_path' = folder_path

\* C7: exploring and exporting happen only on a loaded Volume; a failed
\* load stays failed, without exploring or exporting, until the input
\* changes; an export starts from a page that shows a loaded Volume of the
\* same input; and every page of a loaded Volume offers the views and the
\* export button again, so that any interaction on it explores again and a
\* click on the button exports again.
C7_StateMachine ==
    /\ [](Idle => (~Returned /\ ~Exploring /\ ~Exporting))
    /\ []((Exploring \/ Exporting) => Loaded)
    /\ [][(LoadFailed /\ SameInput) => (LoadFailed' /\ ~Exploring' /\ ~Exporting')]_vars
    /\ [][Exporting' => (Loaded /\ SameInput)]_vars
    /\ [](Loaded => (ui.button /\ ui.fig # None /\ ui.view # None))
    /\ [][(Loaded /\ SameInput) => (Loaded' /\ Exploring')]_vars
    /\ [][(Loaded /\ ClickExport) => Exporting']_vars

\* a page that shows the views again after an export, for a moved index
C7_Witness ==
    /\ Loaded
    /\ Exploring
    /\ ~Exporting
    /\ disk[nifti_path] # None
    /\ Get(disk[nifti_path]).dataobj = astype_int16(Volume)
    /\ widgets.axis = Some("Coronal")

\* C8: while the input stays, no threshold, axis or index change, render,
\* slice display or export changes the Volume, and what an export writes
\* is the cast of the Volume as it was before.
C8_Immutable ==
    [][(ValidVolume /\ SameInput) =>
          /\ ui'.volume_data = ui.volume_data
          /\ ui'.download # None =>
                Get(ui'.download).data = Some([dataobj |-> astype_int16(Volume),
                                               affine |-> eye4])]_vars

\* an export after both thresholds, the axis and the index were moved
C8_Witness ==
    /\ ValidVolume
    /\ ui.download # None
    /\ ui.fig # None
    /\ Get(ui.fig).threshold_min = SeqMax(Volume.data)
    /\ Get(ui.fig).threshold_max = SeqMin(Volume.data)
    /\ Get(ui.fig).threshold_min # Get(ui.fig).threshold_max
    /\ widgets.axis = Some("Sagittal")
    /\ widgets.index = Some(1)

\* the voxel of a 3-D array at (d, h, w), counted from 0
Vox(v, d, h, w) == v.data[(d * v.shape[2] + h) * v.shape[3] + w + 1]

\* the element of a 2-D array at (r, c), counted from 0
Pix(a, r, c) == a.data[r * a.shape[2] + c + 1]

\* C9: the index of the slice view lies in 0 .. extent - 1 of the chosen
\* axis and is the one the user selected, and the cross-section is the
\* plane of the Volume at that index: (H,W) for depth, (D,W) for height,
\* (D,H) for width.
C9_SliceView ==
    ui.view # None =>
       LET view == Get(ui.view)
           D == Volume.shape[1]
           H == Volume.shape[2]
           W == Volume.shape[3]
           i == view.index
       IN  /\ ValidVolume
           /\ view.axis \in Axes
           /\ i \in 0..(Volume.shape[AxisNo(view.axis)] - 1)
           /\ view.max_index = Volume.shape[AxisNo(view.axis)] - 1
           /\ view.img.shape = view.plane.shape
           /\ view.axis = "Axial" =>
                 /\ view.plane.shape = <<H, W>>
                 /\ \A h \in 0..(H - 1) : \A w \in 0..(W - 1) :
                       Pix(view.plane, h, w) = Vox(Volume, i, h, w)
           /\ view.axis = "Coronal" =>
                 /\ view.plane.shape = <<D, W>>
                 /\ \A d \in 0..(D - 1) : \A w \in 0..(W - 1) :
                       Pix(view.plane, d, w) = Vox(Volume, d, i, w)
           /\ view.axis = "Sagittal" =>
                 /\ view.plane.shape = <<D, H>>
                 /\ \A d \in 0..(D - 1) : \A h \in 0..(H - 1) :
                       Pix(view.plane, d, h) = Vox(Volume, d, h, i)

\* the last plane along the width of a Volume of two slices, one row high
C9_Witness ==
    /\ ui.view # None
    /\ Volume.shape = <<2, 1, 2>>
    /\ Get(ui.view).axis = "Sagittal"
    /\ Get(ui.view).index = 1
    /\ Get(ui.view).plane.shape = <<2, 1>>

\* what the page and the export directory hold after an export
Exported ==
    ui.download # None =>
          /\ ValidVolume
          /\ disk[nifti_path] # None
          /\ Get(ui.download).data = disk[nifti_path]
          /\ LET img == Get(disk[nifti_path])
             IN  /\ img.affine = [i \in 1..4 |-> [j \in 1..4 |-> IF i = j THEN 1 ELSE 0]]
                 /\ img.dataobj.dtype = "int16"
                 /\ img.dataobj.shape = Volume.shape
                 /\ Len(img.dataobj.data) = Len(Volume.data)
                 /\ \A i \in 1..Len(Volume.data) :
                       /\ img.dataobj.data[i] \in -32768..32767
                       /\ (img.dataobj.data[i] - Volume.data[i]) % 65536 = 0

\* C10: the export button is there for every Volume, whatever its values,
\* and a click on it always exports; the export leaves at the fixed path,
\* whatever was there, the Volume cast to int16 element by element (values
\* wrap modulo 2^16) with the identity as its 4x4 transform, and the
\* download is read from that path.
C10_Export ==
    /\ [](ValidVolume => ui.button)
    /\ [][ClickExport => ui'.download # None]_vars
    /\ []Exported

\* an export of a Volume with a value above the int16 range, which wraps
C10_Witness ==
    /\ ui.download # None
    /\ disk[nifti_path] # None
    /\ \E i \in 1..Len(Volume.data) :
          /\ Volume.data[i] = 40007
          /\ Get(disk[nifti_path]).dataobj.data[i] = -25529

====
